---------------------------- MODULE Spec2Model ----------------------------
(***************************************************************************)
(* SipHash NIFs of siphash-elixir (c_src/): the one-shot digest            *)
(* (siphash.c), the incremental state primitives (state.c), the SipRound   *)
(* NIF (native_impl.c) and the sprintf-based formatter (util.c).           *)
(*                                                                         *)
(* A 64-bit word (uint64_t, and unsigned long on the LP64 targets the NIFs *)
(* are built for) is a sequence of 8 bytes, least significant first, so    *)
(* that every C operator is computed at its own width.                     *)
(*                                                                         *)
(* Each NIF call runs as a sequence of steps over its C locals: one step   *)
(* per loop iteration and per SipRound.  While a call is in progress only  *)
(* its own next step is enabled, so a call always runs to its return.      *)
(***************************************************************************)
EXTENDS Integers, Sequences, FiniteSets, TLC

VARIABLES
    key,        \* hash argv[0]: the bytes of the key binary (any length)
    data,       \* hash argv[1]: the bytes of the message binary
    c,          \* compression rounds, a C int
    d,          \* finalization rounds, a C int
    hpc,        \* position of the hash NIF call (siphash.c)
    hv,         \* hash locals v0, v1, v2, v3
    hm,         \* hash local m
    iter,       \* hash local iter
    index,      \* hash local index
    hi,         \* hash local i (the DIGEST_BLOCK counter and the one of line 81)
    output,     \* term returned by the hash NIF
    absorbed,   \* history: the words m that DIGEST_BLOCK consumed, in order
    stores,     \* history: bytes the last sprintf stored, counted from r.data[0]
    state,      \* the {v0, v1, v2, v3} tuple the caller of state.c holds
    spc,        \* position of the state.c NIF call in progress
    sv,         \* apply_block / finalize locals v0, v1, v2, v3
    sm,         \* apply_block local m
    si,         \* apply_block / finalize loop counter i
    reply,      \* term returned by the last state.c NIF call
    fed,        \* history: apply_block calls returned on this session
    finals,     \* history: finalize calls returned on this session
    formatted,  \* term returned by the format NIF (util.c)
    fmt,        \* the template of the last sprintf: hash argv[4] or format argv[1]
    vin,        \* the {v0, v1, v2, v3} argument of one SipRound
    vout        \* the results of the SipRound implementations on vin

vars == <<key, data, c, d, hpc, hv, hm, iter, index, hi, output, absorbed, stores,
          state, spc, sv, sm, si, reply, fed, finals, formatted, fmt, vin, vout>>

sessionVars == <<state, spc, sv, sm, si, reply, fed, finals>>
roundVars == <<vin, vout>>
argVars == <<key, data, c, d>>

None == [kind |-> "none"]

\* Bind(e, F) is F(e) with e evaluated once, before F reads it
Bind(e, F(_)) == CHOOSE r \in {F(y) : y \in {e}} : TRUE

---------------------------------------------------------------------------
(* C arithmetic on bytes and on 64-bit words                               *)

RECURSIVE BitXor(_, _, _)
BitXor(a, b, n) ==
    IF n = 0 THEN 0
    ELSE ((a + b) % 2) + 2 * BitXor(a \div 2, b \div 2, n - 1)

RECURSIVE BitOr(_, _, _)
BitOr(a, b, n) ==
    IF n = 0 THEN 0
    ELSE (IF a % 2 = 1 \/ b % 2 = 1 THEN 1 ELSE 0) + 2 * BitOr(a \div 2, b \div 2, n - 1)

\* the two bitwise operators on 4-bit halves, tabulated
XorNib == [a \in 0..15 |-> [b \in 0..15 |-> BitXor(a, b, 4)]]
OrNib == [a \in 0..15 |-> [b \in 0..15 |-> BitOr(a, b, 4)]]

XorByte(a, b) == 16 * XorNib[a \div 16][b \div 16] + XorNib[a % 16][b % 16]
OrByte(a, b) == 16 * OrNib[a \div 16][b \div 16] + OrNib[a % 16][b % 16]

Pow2(n) == CASE n = 0 -> 1 [] n = 1 -> 2 [] n = 2 -> 4 [] n = 3 -> 8 [] n = 4 -> 16
             [] n = 5 -> 32 [] n = 6 -> 64 [] n = 7 -> 128 [] n = 8 -> 256

\* byte i (0 = least significant) of x, zero outside the word
ByteAt(x, i) == IF i >= 0 /\ i <= 7 THEN x[i + 1] ELSE 0

\* x ^ y
Xor64(x, y) == [i \in 1..8 |-> XorByte(x[i], y[i])]

\* x | y
Or64(x, y) == [i \in 1..8 |-> OrByte(x[i], y[i])]

\* x << b at 64 bits, 0 <= b < 64: the bits shifted past bit 63 are lost
Shl64(x, b) ==
    Bind(<<b \div 8, Pow2(b % 8), Pow2(8 - (b % 8))>>, LAMBDA k :
        [i \in 1..8 |-> ((ByteAt(x, i - 1 - k[1]) * k[2]) % 256)
                        + (ByteAt(x, i - 2 - k[1]) \div k[3])])

\* x >> b at 64 bits, 0 < b < 64: zeros enter from the top
Shr64(x, b) ==
    Bind(<<b \div 8, Pow2(b % 8), Pow2(8 - (b % 8))>>, LAMBDA k :
        [i \in 1..8 |-> (ByteAt(x, i - 1 + k[1]) \div k[2])
                        + ((ByteAt(x, i + k[1]) * k[3]) % 256)])

\* a variant of the addition that drops the carries between bytes
AddNoCarry(x, y) == [i \in 1..8 |-> (x[i] + y[i]) % 256]

RECURSIVE AddCarry(_, _, _, _)
AddCarry(x, y, i, carry) ==
    IF i > 8 THEN <<>>
    ELSE <<(x[i] + y[i] + carry) % 256>>
         \o AddCarry(x, y, i + 1, (x[i] + y[i] + carry) \div 256)

\* x + y on unsigned 64-bit operands: the carry out of bit 63 is dropped
Add64(x, y) == AddCarry(x, y, 1, 0)

\* (uint64_t) b for an unsigned char b
U64(b) == <<b, 0, 0, 0, 0, 0, 0, 0>>

\* a 64-bit literal by its bytes, most significant first, as it is written in hex
Lit(b7, b6, b5, b4, b3, b2, b1, b0) == <<b0, b1, b2, b3, b4, b5, b6, b7>>

Zero64 == U64(0)

---------------------------------------------------------------------------
(* The SipRound of each of the three C files.  v is <<v0, v1, v2, v3>>.    *)

\* variants of the rotations that lose the bits shifted out at the top
Digest_SHIFT_LEFT(x, b) == Shl64(x, b)
State_SHIFT_LEFT(x, b) == Shl64(x, b)

Digest_ROTATE_LEFT(x, b) ==
    Bind(<<Shl64(x, b), Shr64(x, 64 - b)>>, LAMBDA p : Or64(p[1], p[2]))

Digest_COMPRESS(v) ==
    \* v0 += v1; v2 += v3; v1 = ROTATE_LEFT(v1, 13); v3 = ROTATE_LEFT(v3, 16);
    Bind(<<Add64(v[1], v[2]), Digest_ROTATE_LEFT(v[2], 13),
           Add64(v[3], v[4]), Digest_ROTATE_LEFT(v[4], 16)>>, LAMBDA p :
    \* v1 ^= v0; v3 ^= v2; v0 = ROTATE_LEFT(v0, 32);
    Bind(<<Digest_ROTATE_LEFT(p[1], 32), Xor64(p[2], p[1]),
           p[3], Xor64(p[4], p[3])>>, LAMBDA q :
    \* v2 += v1; v0 += v3; v1 = ROTATE_LEFT(v1, 17); v3 = ROTATE_LEFT(v3, 21);
    Bind(<<Add64(q[1], q[4]), Digest_ROTATE_LEFT(q[2], 17),
           Add64(q[3], q[2]), Digest_ROTATE_LEFT(q[4], 21)>>, LAMBDA r :
    \* v1 ^= v2; v3 ^= v0; v2 = ROTATE_LEFT(v2, 32);
    <<r[1], Xor64(r[2], r[3]), Digest_ROTATE_LEFT(r[3], 32), Xor64(r[4], r[1])>>)))

State_ROTATE_LEFT(x, b) ==
    Bind(<<Shl64(x, b), Shr64(x, 64 - b)>>, LAMBDA p : Or64(p[1], p[2]))

State_COMPRESS(v) ==
    \* v0 += v1; v2 += v3; v1 = ROTATE_LEFT(v1, 13); v3 = ROTATE_LEFT(v3, 16);
    Bind(<<Add64(v[1], v[2]), State_ROTATE_LEFT(v[2], 13),
           Add64(v[3], v[4]), State_ROTATE_LEFT(v[4], 16)>>, LAMBDA p :
    \* v1 ^= v0; v3 ^= v2; v0 = ROTATE_LEFT(v0, 32);
    Bind(<<State_ROTATE_LEFT(p[1], 32), Xor64(p[2], p[1]),
           p[3], Xor64(p[4], p[3])>>, LAMBDA q :
    \* v2 += v1; v0 += v3; v1 = ROTATE_LEFT(v1, 17); v3 = ROTATE_LEFT(v3, 21);
    Bind(<<Add64(q[1], q[4]), State_ROTATE_LEFT(q[2], 17),
           Add64(q[3], q[2]), State_ROTATE_LEFT(q[4], 21)>>, LAMBDA r :
    \* v1 ^= v2; v3 ^= v0; v2 = ROTATE_LEFT(v2, 32);
    <<r[1], Xor64(r[2], r[3]), State_ROTATE_LEFT(r[3], 32), Xor64(r[4], r[1])>>)))

rotate_left(x, b) ==
    Bind(<<Shl64(x, b), Shr64(x, 64 - b)>>, LAMBDA p : Or64(p[1], p[2]))

\* native_impl.c lines 20-36, between reading the tuple and building the reply
compress(v) ==
    \* v0 += v1; v2 += v3; v1 = rotate_left(v1, 13); v3 = rotate_left(v3, 16);
    Bind(<<Add64(v[1], v[2]), rotate_left(v[2], 13),
           Add64(v[3], v[4]), rotate_left(v[4], 16)>>, LAMBDA p :
    \* v1 ^= v0; v3 ^= v2; v0 = rotate_left(v0, 32);
    Bind(<<rotate_left(p[1], 32), Xor64(p[2], p[1]),
           p[3], Xor64(p[4], p[3])>>, LAMBDA q :
    \* v2 += v1; v0 += v3; v1 = rotate_left(v1, 17); v3 = rotate_left(v3, 21);
    Bind(<<Add64(q[1], q[4]), rotate_left(q[2], 17),
           Add64(q[3], q[2]), rotate_left(q[4], 21)>>, LAMBDA r :
    \* v1 ^= v2; v3 ^= v0; v2 = rotate_left(v2, 32);
    <<r[1], Xor64(r[2], r[3]), rotate_left(r[3], 32), Xor64(r[4], r[1])>>)))

---------------------------------------------------------------------------
(* siphash.c: the one-shot hash NIF                                        *)

\* the four initialisation words of lines 53-56
IV0 == Lit(115, 111, 109, 101, 112, 115, 101, 117)   \* 0x736f6d6570736575
IV1 == Lit(100, 111, 114, 97, 110, 100, 111, 109)    \* 0x646f72616e646f6d
IV2 == Lit(108, 121, 103, 101, 110, 101, 114, 97)    \* 0x6c7967656e657261
IV3 == Lit(116, 101, 100, 98, 121, 116, 101, 115)    \* 0x7465646279746573

\* a variant of the read that takes the bytes most significant first
U8TO64_BE(mem, off) == [k \in 1..8 |-> mem[off + 9 - k]]

\* p[0] | p[1] << 8 | ... | p[7] << 56 for p = mem + off
U8TO64_LE(mem, off) ==
    Bind([k \in 1..8 |-> Shl64(U64(mem[off + k]), 8 * (k - 1))], LAMBDA t :
    Bind(<<Or64(t[1], t[2]), Or64(t[3], t[4]), Or64(t[5], t[6]), Or64(t[7], t[8])>>,
         LAMBDA u :
    Bind(<<Or64(u[1], u[2]), Or64(u[3], u[4])>>, LAMBDA w : Or64(w[1], w[2]))))

\* The 16 bytes at key.data.  enif_inspect_binary gives key.size bytes; hash never
\* reads key.size, so for a shorter binary the bytes past its end are whatever
\* the memory behind it holds (oob, one value for all of them).
KeyMemory(k, oob) == [j \in 1..16 |-> IF j <= Len(k) THEN k[j] ELSE oob]

\* values the memory behind a binary may hold
OutOfBounds == {0, 170}

\* a variant of the length word that counts the leftover bytes only
LeftoverWord(n) == <<n % 8, 0, 0, 0, 0, 0, 0, 0>>

\* (uint64_t) data.size
SizeWord(n) ==
    <<n % 256, (n \div 256) % 256, (n \div 65536) % 256, (n \div 16777216) % 256,
      0, 0, 0, 0>>

\* DIGEST_BLOCK, line 24: v3 ^= m
DIGEST_BLOCK_enter(v, m) == <<v[1], v[2], v[3], Xor64(v[4], m)>>

\* DIGEST_BLOCK, line 31: v0 ^= m
DIGEST_BLOCK_leave(v, m) == <<Xor64(v[1], m), v[2], v[3], v[4]>>

\* lines 71-73: while (iter < 7) m |= 0 << (iter++ * 8).  The shifted operand is
\* the int constant 0: every build yields 0 for it, whatever the shift count.
RECURSIVE PadLoop(_)
PadLoop(p) ==
    IF p[2] < 7
    THEN Bind(<<Or64(p[1], Zero64), p[2] + 1>>, LAMBDA q : PadLoop(q))
    ELSE p

\* lines 40-60: the entry of hash up to the loop
HashCall ==
    /\ hpc = "idle"
    /\ \E oob \in (IF Len(key) < 16 THEN OutOfBounds ELSE {0}) :
         \E k \in {<<U8TO64_LE(KeyMemory(key, oob), 0),
                     U8TO64_LE(KeyMemory(key, oob), 8)>>} :
            hv' = <<Xor64(IV0, k[1]), Xor64(IV1, k[2]),
                    Xor64(IV2, k[1]), Xor64(IV3, k[2])>>
    /\ hm' = Zero64
    /\ iter' = 0
    /\ index' = 0
    /\ hpc' = "loop"
    /\ UNCHANGED <<hi, output, absorbed, stores, fmt>>
    /\ UNCHANGED <<argVars, sessionVars, formatted, roundVars>>

\* a variant of the test of line 64 that lets a ninth byte into the block
BlockOverfull(it) == it > 8

\* line 64: iter >= 8
BlockFull(it) == it >= 8

\* lines 62-64: one iteration of the loop over the message, up to DIGEST_BLOCK
HashByte ==
    /\ hpc = "loop"
    /\ index < Len(data)
    /\ hm' = Or64(hm, Shl64(U64(data[index + 1]), iter * 8))
    /\ iter' = iter + 1
    /\ IF BlockFull(iter')
       THEN /\ hv' = DIGEST_BLOCK_enter(hv, hm')
            /\ hi' = 0
            /\ hpc' = "block"
            /\ UNCHANGED index
       ELSE /\ index' = index + 1
            /\ UNCHANGED <<hv, hi, hpc>>
    /\ UNCHANGED <<output, absorbed, stores, fmt>>
    /\ UNCHANGED <<argVars, sessionVars, formatted, roundVars>>

\* lines 27-29: one iteration of the loop of DIGEST_BLOCK (at line 65 or line 77)
HashCompress ==
    /\ hpc \in {"block", "last"}
    /\ hi < c
    /\ hv' = Digest_COMPRESS(hv)
    /\ hi' = hi + 1
    /\ UNCHANGED <<hpc, hm, iter, index, output, absorbed, stores, fmt>>
    /\ UNCHANGED <<argVars, sessionVars, formatted, roundVars>>

\* lines 31, 66-67 and the index++ of line 62: the end of a full block
HashBlockEnd ==
    /\ hpc = "block"
    /\ ~(hi < c)
    /\ hv' = DIGEST_BLOCK_leave(hv, hm)
    /\ absorbed' = Append(absorbed, hm)
    /\ iter' = 0
    /\ hm' = Zero64
    /\ index' = index + 1
    /\ hpc' = "loop"
    /\ UNCHANGED <<hi, output, stores, fmt>>
    /\ UNCHANGED <<argVars, sessionVars, formatted, roundVars>>

\* lines 71-77: the padding, the length byte and the entry of the last DIGEST_BLOCK
HashPad ==
    /\ hpc = "loop"
    /\ ~(index < Len(data))
    /\ \E p \in {PadLoop(<<hm, iter>>)} :
         /\ iter' = p[2]
         /\ hm' = Or64(p[1], Shl64(SizeWord(Len(data)), p[2] * 8))
    /\ hv' = DIGEST_BLOCK_enter(hv, hm')
    /\ hi' = 0
    /\ hpc' = "last"
    /\ UNCHANGED <<index, output, absorbed, stores, fmt>>
    /\ UNCHANGED <<argVars, sessionVars, formatted, roundVars>>

\* lines 31 and 79-81: the end of the last block, v2 ^= 0xff
HashLastEnd ==
    /\ hpc = "last"
    /\ ~(hi < c)
    /\ \E w \in {DIGEST_BLOCK_leave(hv, hm)} :
         hv' = <<w[1], w[2], Xor64(w[3], U64(255)), w[4]>>
    /\ absorbed' = Append(absorbed, hm)
    /\ hi' = 0
    /\ hpc' = "final"
    /\ UNCHANGED <<hm, iter, index, output, stores, fmt>>
    /\ UNCHANGED <<argVars, sessionVars, formatted, roundVars>>

\* lines 82-84: one finalization round
HashFinalRound ==
    /\ hpc = "final"
    /\ hi < d
    /\ hv' = Digest_COMPRESS(hv)
    /\ hi' = hi + 1
    /\ UNCHANGED <<hpc, hm, iter, index, output, absorbed, stores, fmt>>
    /\ UNCHANGED <<argVars, sessionVars, formatted, roundVars>>

\* line 86: v0 ^ v1 ^ v2 ^ v3
Digest_Output(v) ==
    Bind(Xor64(v[1], v[2]), LAMBDA a :
    Bind(Xor64(a, v[3]), LAMBDA b : Xor64(b, v[4])))

\* lines 86-90: the return of the 4-argument call
HashReturn4 ==
    /\ hpc = "final"
    /\ ~(hi < d)
    /\ output' = [kind |-> "ulong", value |-> Digest_Output(hv)]
    /\ hpc' = "done"
    /\ UNCHANGED <<hv, hm, iter, index, hi, absorbed, stores, fmt>>
    /\ UNCHANGED <<argVars, sessionVars, formatted, roundVars>>

---------------------------------------------------------------------------
(* sprintf(r.data, f.data, n) of siphash.c line 97 and util.c line 11.     *)
(* A template is the C string at f.data, one character per element: the    *)
(* bytes sprintf reads up to the first NUL.  The conversions modelled are  *)
(* %[0][width][l]x, %[0][width][l]X and %%; other characters are copied.   *)

Digits == <<"0", "1", "2", "3", "4", "5", "6", "7", "8", "9">>
LowerHex == Digits \o <<"a", "b", "c", "d", "e", "f">>
UpperHex == Digits \o <<"A", "B", "C", "D", "E", "F">>

IsDigit(ch) == \E i \in 1..10 : Digits[i] = ch
DigitValue(ch) == (CHOOSE i \in 1..10 : Digits[i] = ch) - 1

\* the 16 hexadecimal digits of n as numbers, most significant first
Nibbles(n) ==
    [i \in 1..16 |-> IF i % 2 = 1 THEN n[8 - (i \div 2)] \div 16
                     ELSE n[9 - (i \div 2)] % 16]

\* the number of leading zero digits sprintf drops: all but the last digit
RECURSIVE LeadingZeros(_, _)
LeadingZeros(nib, i) ==
    IF i < 16 /\ nib[i] = 0 THEN 1 + LeadingZeros(nib, i + 1) ELSE 0

\* the field width: the decimal number at f[p], and the position after it
RECURSIVE ReadWidth(_, _, _)
ReadWidth(f, p, acc) ==
    IF p <= Len(f) /\ IsDigit(f[p])
    THEN ReadWidth(f, p + 1, 10 * acc + DigitValue(f[p]))
    ELSE <<acc, p>>

\* one %x or %X conversion of n with the flag and width given
Convert(n, alphabet, zero, width) ==
    Bind(Nibbles(n), LAMBDA nib :
    Bind(LeadingZeros(nib, 1), LAMBDA z :
        [i \in 1..(IF width > 16 - z THEN width - (16 - z) ELSE 0) |->
            IF zero THEN "0" ELSE " "]
        \o [i \in 1..(16 - z) |-> alphabet[nib[z + i] + 1]]))

\* the characters sprintf produces from position p of the template f on
RECURSIVE Sprintf(_, _, _)
Sprintf(f, p, n) ==
    IF p > Len(f) THEN <<>>
    ELSE IF f[p] # "%" \/ p = Len(f) THEN <<f[p]>> \o Sprintf(f, p + 1, n)
    ELSE IF f[p + 1] = "%" THEN <<"%">> \o Sprintf(f, p + 2, n)
    ELSE Bind(f[p + 1] = "0", LAMBDA zero :
         Bind(ReadWidth(f, IF zero THEN p + 2 ELSE p + 1, 0), LAMBDA w :
         Bind(IF w[2] <= Len(f) /\ f[w[2]] = "l" THEN w[2] + 1 ELSE w[2], LAMBDA q :
            IF q <= Len(f) /\ f[q] = "x"
            THEN Convert(n, LowerHex, zero, w[1]) \o Sprintf(f, q + 1, n)
            ELSE IF q <= Len(f) /\ f[q] = "X"
            THEN Convert(n, UpperHex, zero, w[1]) \o Sprintf(f, q + 1, n)
            ELSE <<>>)))

\* values a byte of the allocated binary holds when sprintf did not store to it
Uninitialised == {"NUL", "?"}

\* the 16 bytes of the binary enif_alloc_binary(16, &r) gave, after sprintf
\* stored the characters chars and the terminating NUL from r.data[0] on
Binary16(chars, junk) ==
    [i \in 1..16 |-> IF i <= Len(chars) THEN chars[i]
                     ELSE IF i = Len(chars) + 1 THEN "NUL" ELSE junk]

\* the templates a caller passes: the two the library's own callers use, and others
Templates ==
    { <<"%", "0", "1", "6", "l", "x">>,
      <<"%", "0", "1", "6", "l", "X">>,
      <<"%", "l", "x">>,
      <<"%", "2", "0", "l", "x">>,
      <<"0", "x", "%", "0", "1", "6", "l", "X">>,
      <<"%", "%", "%", "l", "x">> }

\* lines 86, 92-99: the return of the 5-argument call
HashReturn5 ==
    /\ hpc = "final"
    /\ ~(hi < d)
    /\ \E f \in Templates :
         \E chars \in {Sprintf(f, 1, Digest_Output(hv))} :
            \E junk \in (IF Len(chars) + 1 < 16 THEN Uninitialised ELSE {"NUL"}) :
               /\ output' = [kind |-> "binary", value |-> Binary16(chars, junk)]
               /\ stores' = Len(chars) + 1
               /\ fmt' = f
    /\ hpc' = "done"
    /\ UNCHANGED <<hv, hm, iter, index, hi, absorbed>>
    /\ UNCHANGED <<argVars, sessionVars, formatted, roundVars>>

---------------------------------------------------------------------------
(* The caller of state.c.  The session's state is the tuple the caller     *)
(* holds between calls; its creation from the key and the cutting of the   *)
(* message into words are the caller's, as sections 3 and 4.3 give them.   *)

\* section 3: the key's two little-endian 64-bit halves
KeyHalf(k, h) == [i \in 1..8 |-> k[8 * (h - 1) + i]]

\* section 3: the initial state of a 16-byte key
init_state(k) ==
    <<Xor64(IV0, KeyHalf(k, 1)), Xor64(IV1, KeyHalf(k, 2)),
      Xor64(IV2, KeyHalf(k, 1)), Xor64(IV3, KeyHalf(k, 2))>>

\* section 4.3: the number of words of a message, the padded one included
NumWords(msg) == (Len(msg) \div 8) + 1

\* section 4.3: word j of a message: a full 8-byte chunk, or the leftover bytes,
\* zeros up to 7 bytes and the message length mod 256 as the 8th byte
Word(msg, j) ==
    IF j <= Len(msg) \div 8
    THEN [i \in 1..8 |-> msg[8 * (j - 1) + i]]
    ELSE [i \in 1..8 |-> IF i = 8 THEN Len(msg) % 256
                         ELSE IF 8 * (j - 1) + i <= Len(msg) THEN msg[8 * (j - 1) + i]
                         ELSE 0]

\* calls the caller still makes on a session it has finalized
MaxExtra == 2

\* the session begins once the one-shot call has returned its number
InitState ==
    /\ hpc = "done"
    /\ output.kind = "ulong"
    /\ state = None
    /\ Len(key) = 16
    /\ state' = init_state(key)
    /\ UNCHANGED <<spc, sv, sm, si, reply, fed, finals>>
    /\ UNCHANGED <<argVars, hpc, hv, hm, iter, index, hi, output, absorbed, stores,
                   fmt, formatted, roundVars>>

\* the caller goes on with the session: in order while words are left and the
\* session is not finalized, and at most MaxExtra calls after that
SessionOpen ==
    /\ state # None
    /\ spc = "idle"
    /\ formatted = None
    /\ fed + finals < NumWords(data) + 1 + MaxExtra

\* state.c lines 22-44: the entry of apply_block, v3 ^= m
ApplyBlockCall ==
    /\ SessionOpen
    /\ finals = 0 => fed < NumWords(data)
    /\ \E m \in {Word(data, IF fed < NumWords(data) THEN fed + 1 ELSE NumWords(data))} :
         /\ sm' = m
         /\ sv' = <<state[1], state[2], state[3], Xor64(state[4], m)>>
    /\ si' = 0
    /\ spc' = "apply"
    /\ UNCHANGED <<state, reply, fed, finals>>
    /\ UNCHANGED <<argVars, hpc, hv, hm, iter, index, hi, output, absorbed, stores,
                   fmt, formatted, roundVars>>

\* state.c lines 45-47 and 80-82: one round of either loop
StateCompress ==
    /\ \/ spc = "apply" /\ si < c
       \/ spc = "finalize" /\ si < d
    /\ sv' = State_COMPRESS(sv)
    /\ si' = si + 1
    /\ UNCHANGED <<state, spc, sm, reply, fed, finals>>
    /\ UNCHANGED <<argVars, hpc, hv, hm, iter, index, hi, output, absorbed, stores,
                   fmt, formatted, roundVars>>

\* state.c lines 48-56: v0 ^= m and the tuple returned, which the caller keeps
ApplyBlockReturn ==
    /\ spc = "apply"
    /\ ~(si < c)
    /\ \E t \in {<<Xor64(sv[1], sm), sv[2], sv[3], sv[4]>>} :
         /\ reply' = [kind |-> "tuple", value |-> t]
         /\ state' = t
    /\ fed' = fed + 1
    /\ spc' = "idle"
    /\ UNCHANGED <<sv, sm, si, finals>>
    /\ UNCHANGED <<argVars, hpc, hv, hm, iter, index, hi, output, absorbed, stores,
                   fmt, formatted, roundVars>>

\* state.c lines 59-79: the entry of finalize, v2 ^= 0xff
FinalizeCall ==
    /\ SessionOpen
    /\ fed >= NumWords(data)
    /\ sv' = <<state[1], state[2], Xor64(state[3], U64(255)), state[4]>>
    /\ si' = 0
    /\ spc' = "finalize"
    /\ UNCHANGED <<state, sm, reply, fed, finals>>
    /\ UNCHANGED <<argVars, hpc, hv, hm, iter, index, hi, output, absorbed, stores,
                   fmt, formatted, roundVars>>

\* state.c line 84: v0 ^ v1 ^ v2 ^ v3
State_Output(v) ==
    Bind(Xor64(v[1], v[2]), LAMBDA a :
    Bind(Xor64(a, v[3]), LAMBDA b : Xor64(b, v[4])))

\* state.c line 84: the number returned; the tuple the caller holds is as it was
FinalizeReturn ==
    /\ spc = "finalize"
    /\ ~(si < d)
    /\ reply' = [kind |-> "ulong", value |-> State_Output(sv)]
    /\ finals' = finals + 1
    /\ spc' = "idle"
    /\ UNCHANGED <<state, sv, sm, si, fed>>
    /\ UNCHANGED <<argVars, hpc, hv, hm, iter, index, hi, output, absorbed, stores,
                   fmt, formatted, roundVars>>

\* util.c lines 3-14: format, called on the number finalize returned
Format ==
    /\ spc = "idle"
    /\ reply.kind = "ulong"
    /\ formatted = None
    /\ \E f \in Templates :
         \E chars \in {Sprintf(f, 1, reply.value)} :
            \E junk \in (IF Len(chars) + 1 < 16 THEN Uninitialised ELSE {"NUL"}) :
               /\ formatted' = [kind |-> "binary", value |-> Binary16(chars, junk)]
               /\ stores' = Len(chars) + 1
               /\ fmt' = f
    /\ UNCHANGED <<argVars, hpc, hv, hm, iter, index, hi, output, absorbed,
                   sessionVars, roundVars>>

---------------------------------------------------------------------------
(* native_impl.c: the compress NIF, and the two COMPRESS macros on their   *)
(* own, each applied once to the same tuple                                *)

NativeCompress ==
    /\ vin # None
    /\ vout.native = None
    /\ vout' = [vout EXCEPT !.native = [kind |-> "tuple", value |-> compress(vin)]]
    /\ UNCHANGED <<vin, argVars, hpc, hv, hm, iter, index, hi, output, absorbed, stores,
                   fmt, formatted, sessionVars>>

DigestRound ==
    /\ vin # None
    /\ vout.digest = None
    /\ vout' = [vout EXCEPT !.digest = [kind |-> "tuple", value |-> Digest_COMPRESS(vin)]]
    /\ UNCHANGED <<vin, argVars, hpc, hv, hm, iter, index, hi, output, absorbed, stores,
                   fmt, formatted, sessionVars>>

StateRound ==
    /\ vin # None
    /\ vout.state = None
    /\ vout' = [vout EXCEPT !.state = [kind |-> "tuple", value |-> State_COMPRESS(vin)]]
    /\ UNCHANGED <<vin, argVars, hpc, hv, hm, iter, index, hi, output, absorbed, stores,
                   fmt, formatted, sessionVars>>

---------------------------------------------------------------------------
(* The inputs                                                              *)

MaxLen == 16
MaxC == 2
MaxD == 4

\* the bytes 00 01 02 ... of the reference vectors
Incr(n) == [i \in 1..n |-> (i - 1) % 256]

\* n bytes b
Fill(n, b) == [i \in 1..n |-> b]

\* the reference key, a key of high bytes, a short key and a long one
Keys == {Incr(16), Fill(16, 255), Incr(15), Incr(17)}

\* messages of every length up to MaxLen, the longest reference message, and
\* two whose length passes 255
Messages ==
    {Incr(n) : n \in 0..MaxLen} \cup {Fill(n, 255) : n \in 1..MaxLen}
    \cup {Incr(63), Incr(256), Incr(257)}

CRounds == {-1, 0} \cup 1..MaxC
DRounds == {-1, 0} \cup 1..MaxD

Idle ==
    /\ hpc = "idle" /\ hv = None /\ hm = None /\ iter = 0 /\ index = 0 /\ hi = 0
    /\ output = None /\ absorbed = <<>> /\ stores = 0 /\ fmt = None /\ formatted = None
    /\ state = None /\ spc = "idle" /\ sv = None /\ sm = None /\ si = 0
    /\ reply = None /\ fed = 0 /\ finals = 0

Init ==
    /\ key \in Keys
    /\ data \in Messages
    /\ c \in CRounds
    /\ d \in DRounds
    /\ Idle
    /\ vin = None
    /\ vout = None

Next ==
    \/ HashCall
    \/ HashByte
    \/ HashCompress
    \/ HashBlockEnd
    \/ HashPad
    \/ HashLastEnd
    \/ HashFinalRound
    \/ HashReturn4
    \/ HashReturn5
    \/ InitState
    \/ ApplyBlockCall
    \/ StateCompress
    \/ ApplyBlockReturn
    \/ FinalizeCall
    \/ FinalizeReturn
    \/ Format

Spec == Init /\ [][Next]_vars

\* the words SipRound is applied to: 0, 1, 2^63, 2^64 - 1
RoundWords ==
    { Zero64, U64(1), <<0, 0, 0, 0, 0, 0, 0, 128>>, Fill(8, 255) }

RoundStates == {<<a, b, e, g>> : a \in RoundWords, b \in RoundWords,
                                 e \in RoundWords, g \in RoundWords}

InitRound ==
    /\ key = <<>> /\ data = <<>> /\ c = 0 /\ d = 0
    /\ Idle
    /\ vin \in RoundStates
    /\ vout = [native |-> None, digest |-> None, state |-> None]

NextRound ==
    \/ NativeCompress
    \/ DigestRound
    \/ StateRound

SpecRound == InitRound /\ [][NextRound]_vars

---------------------------------------------------------------------------
(* Properties of the one-shot hash, checked under Spec                     *)

HashReturned == hpc = "done" /\ output.kind = "ulong"

\* C1: with the reference key 00 01 .. 0f, c = 2 and d = 4, the one-shot hash
\* returns the published SipHash-2-4 outputs: 0x726fdb47dd0e0e31 for the empty
\* message, 0x74f839c593dc67fd for the message 00, 0xa129ca6149be45e5 for the
\* 15 bytes 00 .. 0e and 0x958a324ceb064572 for the 63 bytes 00 .. 3e.
KnownAnswers ==
    (HashReturned /\ key = Incr(16) /\ c = 2 /\ d = 4) =>
        /\ data = Incr(0) => output.value = Lit(114, 111, 219, 71, 221, 14, 14, 49)
        /\ data = Incr(1) => output.value = Lit(116, 248, 57, 197, 147, 220, 103, 253)
        /\ data = Incr(15) => output.value = Lit(161, 41, 202, 97, 73, 190, 69, 229)
        /\ data = Incr(63) => output.value = Lit(149, 138, 50, 76, 235, 6, 69, 114)

KnownAnswersReached ==
    HashReturned /\ key = Incr(16) /\ c = 2 /\ d = 4 /\ data = Incr(15)

\* C2: for a 16-byte key and c >= 1, d >= 1, the state made from the key, given
\* to apply_block once per word of the message (the padded last word included)
\* and then to finalize, yields the output of the one-shot hash on the same
\* key, message, c and d.
IncrementalEqualsOneShot ==
    (/\ Len(key) = 16 /\ c >= 1 /\ d >= 1
     /\ spc = "idle" /\ fed = NumWords(data) /\ finals = 1 /\ reply.kind = "ulong")
        => reply.value = output.value

IncrementalReached ==
    /\ Len(key) = 16 /\ c = 2 /\ d >= 1 /\ Len(data) = 15
    /\ spc = "idle" /\ fed = 2 /\ finals = 1 /\ reply.kind = "ulong"

\* C3: for a message of n bytes the one-shot hash absorbs exactly n div 8 + 1
\* blocks; the last one is always absorbed, and when n is a multiple of 8 (n = 0
\* included) it is zero but for the length byte.
BlockCount ==
    hpc = "done" =>
        /\ Len(absorbed) = (Len(data) \div 8) + 1
        /\ Len(data) % 8 = 0 =>
             absorbed[Len(absorbed)] = <<0, 0, 0, 0, 0, 0, 0, Len(data) % 256>>

BlockCountReached ==
    hpc = "done" /\ Len(data) = 16 /\ Len(absorbed) = 3

\* C4: the last word the one-shot hash absorbs holds the n mod 8 leftover bytes
\* of the message in its low bytes, in order, zeros up to byte 6, and n mod 256
\* in byte 7, n being the length of the whole message.
FinalWord ==
    hpc = "done" =>
        absorbed[Len(absorbed)] =
            [i \in 1..8 |->
                IF i = 8 THEN Len(data) % 256
                ELSE IF i <= Len(data) % 8 THEN data[8 * (Len(data) \div 8) + i]
                ELSE 0]

FinalWordReached ==
    /\ hpc = "done" /\ Len(data) = 257
    /\ absorbed[Len(absorbed)] = <<0, 0, 0, 0, 0, 0, 0, 1>>

\* C5: called with a key that is not 16 bytes long, the one-shot hash does no
\* mixing and fails with InvalidKeyLength, returning no number.
RejectsKeyLength ==
    Len(key) # 16 =>
        /\ hpc \in {"idle", "done"}
        /\ hpc = "done" => output = [kind |-> "error", reason |-> "InvalidKeyLength"]

\* C6: called with c < 1 or d < 1, the one-shot hash fails with
\* InvalidRoundCount and returns no number, and so do apply_block with c < 1 and
\* finalize with d < 1.
RejectsRoundCount ==
    /\ (Len(key) = 16 /\ hpc = "done" /\ (c < 1 \/ d < 1)) =>
            output = [kind |-> "error", reason |-> "InvalidRoundCount"]
    /\ (spc = "idle" /\ reply.kind = "tuple") => c >= 1
    /\ (spc = "idle" /\ reply.kind = "ulong") => d >= 1

\* C7: once finalize has been applied the session is terminal: no later
\* apply_block yields a new state and no later finalize yields an output.
FinalizedIsTerminal ==
    finals >= 1 => (finals = 1 /\ fed = NumWords(data))

\* the two templates of the closed set of styles: 16 lowercase or uppercase digits
ClosedStyles ==
    { <<"%", "0", "1", "6", "l", "x">>, <<"%", "0", "1", "6", "l", "X">> }

\* C8: the formatting step takes only a style of the closed set, never a
\* template of the caller's, and stores no byte outside its 16-byte buffer.
FormatStaysInBuffer ==
    fmt # None => (fmt \in ClosedStyles /\ stores <= 16)

---------------------------------------------------------------------------
(* Properties of SipRound, checked under SpecRound                         *)

\* section 4.1 on the bits of the words: bit i of a word, 0 the least significant
Bits(w) == [i \in 0..63 |-> (w[(i \div 8) + 1] \div Pow2(i % 8)) % 2]

FromBits(b) ==
    [j \in 1..8 |->
        b[8 * j - 8] + 2 * b[8 * j - 7] + 4 * b[8 * j - 6] + 8 * b[8 * j - 5]
        + 16 * b[8 * j - 4] + 32 * b[8 * j - 3] + 64 * b[8 * j - 2] + 128 * b[8 * j - 1]]

\* rotl(x, n): bit i of the result is bit i - n (mod 64) of x
RefRotl(x, n) == Bind(Bits(x), LAMBDA b : FromBits([i \in 0..63 |-> b[(i + 64 - n) % 64]]))

\* x ^ y, bit by bit
RefXor(x, y) ==
    Bind(<<Bits(x), Bits(y)>>, LAMBDA b : FromBits([i \in 0..63 |-> (b[1][i] + b[2][i]) % 2]))

\* x + y mod 2^64: byte j takes a carry iff a lower byte produces one and every
\* byte between passes it on
RefAdd(x, y) ==
    [j \in 1..8 |->
        (x[j] + y[j]
         + (IF \E g \in 1..(j - 1) :
                  /\ x[g] + y[g] >= 256
                  /\ \A k \in (g + 1)..(j - 1) : x[k] + y[k] = 255
            THEN 1 ELSE 0)) % 256]

\* the steps of section 4.1 in their order: the operation, the word assigned
\* (0..3), and the other word or the rotation count
SipRoundSteps ==
    << <<"add", 0, 1>>, <<"add", 2, 3>>, <<"rotl", 1, 13>>, <<"rotl", 3, 16>>,
       <<"xor", 1, 0>>, <<"xor", 3, 2>>, <<"rotl", 0, 32>>,
       <<"add", 2, 1>>, <<"add", 0, 3>>, <<"rotl", 1, 17>>, <<"rotl", 3, 21>>,
       <<"xor", 1, 2>>, <<"xor", 3, 0>>, <<"rotl", 2, 32>> >>

\* x - y mod 2^64, as x + (2^64 - 1 - y) + 1
RefSub(x, y) == RefAdd(RefAdd(x, [i \in 1..8 |-> 255 - y[i]]), <<1, 0, 0, 0, 0, 0, 0, 0>>)

RefStep(v, ins) ==
    [v EXCEPT ![ins[2] + 1] =
        CASE ins[1] = "add" -> RefAdd(v[ins[2] + 1], v[ins[3] + 1])
          [] ins[1] = "sub" -> RefSub(v[ins[2] + 1], v[ins[3] + 1])
          [] ins[1] = "xor" -> RefXor(v[ins[2] + 1], v[ins[3] + 1])
          [] ins[1] = "rotl" -> RefRotl(v[ins[2] + 1], ins[3])]

RECURSIVE RefRun(_, _, _)
RefRun(v, steps, i) ==
    IF i > Len(steps) THEN v
    ELSE Bind(RefStep(v, steps[i]), LAMBDA w : RefRun(w, steps, i + 1))

SipRoundRef(v) == RefRun(v, SipRoundSteps, 1)

IsWord(w) == DOMAIN w = 1..8 /\ \A i \in 1..8 : w[i] \in 0..255

AgreesWithRef(r) ==
    r # None => (r.value = SipRoundRef(vin) /\ \A j \in 1..4 : IsWord(r.value[j]))

\* C9: on every state the compress NIF, the COMPRESS of siphash.c and the
\* COMPRESS of state.c return what the step sequence of section 4.1 returns,
\* with additions modulo 2^64 and every word in [0, 2^64).
SipRoundAgrees ==
    AgreesWithRef(vout.native) /\ AgreesWithRef(vout.digest) /\ AgreesWithRef(vout.state)

\* a state whose first addition wraps: v0 = 2^64 - 1, v1 = 1
SipRoundAgreesReached ==
    /\ vin[1] = Fill(8, 255) /\ vin[2] = U64(1)
    /\ vout.native # None /\ vout.digest # None /\ vout.state # None

\* the images of all the states under the two SipRounds of C10
DigestImage == [t \in RoundStates |-> Digest_COMPRESS(t)]
NativeImage == [t \in RoundStates |-> compress(t)]

\* each step of section 4.1 undone: the steps in reverse order, a subtraction for
\* an addition, a rotation by 64 - n for a rotation by n, the xor as it is
UndoSteps ==
    [i \in 1..Len(SipRoundSteps) |->
        Bind(SipRoundSteps[Len(SipRoundSteps) + 1 - i], LAMBDA ins :
            CASE ins[1] = "add" -> <<"sub", ins[2], ins[3]>>
              [] ins[1] = "rotl" -> <<"rotl", ins[2], 64 - ins[3]>>
              [] ins[1] = "xor" -> ins)]

Undone(r) == r # None => RefRun(r.value, UndoSteps, 1) = vin

\* C10: SipRound maps distinct states to distinct results: no other state has
\* the image of the state it was applied to, and undoing its steps one by one
\* on the result gives that state back.
SipRoundInjective ==
    /\ \A t \in RoundStates :
          t # vin =>
              /\ vout.digest # None => DigestImage[t] # vout.digest.value
              /\ vout.native # None => NativeImage[t] # vout.native.value
    /\ Undone(vout.digest)
    /\ Undone(vout.native)

\* two states that differ in the top bit of v2 and v3 only
SipRoundInjectiveReached ==
    /\ vin = <<Zero64, Zero64, <<0, 0, 0, 0, 0, 0, 0, 128>>, <<0, 0, 0, 0, 0, 0, 0, 128>>>>
    /\ vout.digest # None /\ vout.native # None
    /\ vout.digest.value # DigestImage[<<Zero64, Zero64, Zero64, Zero64>>]

=============================================================================
